---- MODULE Spec2Model ----
(***************************************************************************)
(* NAND-Counter (src/src/main.rs): the recursive, memoized resolution of   *)
(* chip gate counts (ProjectManager::check_chip), the per-project scan     *)
(* that drives it (ProjectManager::scan_project) and the start-up that     *)
(* locates the projects (ProjectManager::new, prompt_and_scan).            *)
(***************************************************************************)
EXTENDS Integers, Sequences, FiniteSets, TLC

VARIABLES
    \* the project on disk (read-only input of a scan)
    meta,        \* ProjectDescription.json of the scanned project
    files,       \* Chips/<name>.json, per custom chip name
    \* scan_project / check_chip
    pc,          \* where the program is
    chip_map,    \* HashMap<String, Chip>
    idx,         \* position of the `for name in &chips` loop of scan_project
    stack,       \* the active check_chip calls, outermost first
    err,         \* an Err(..) travelling up the check_chip calls: <<>> or <<e>>
    results,     \* what each check_chip call of scan_project returned
    log,         \* the "[DEBUG] ..." lines written to stderr
    total_nand,  \* ProjectScanResult.total_nand
    reads,       \* per chip name: accesses to its definition file
    commits,     \* per chip name: executions of lines 319-321 for it
    first,       \* the result of an earlier scan of the same storage: <<>> or <<r>>
    \* start-up
    os,          \* target_os the binary was built for
    args,        \* Args.game_dir: <<>> (None) or <<path>>
    game_dir,    \* ProjectManager.game_dir
    projects,    \* ProjectManager.projects
    selected     \* the projects prompt_and_scan hands to scan_project

vars == <<meta, files, pc, chip_map, idx, stack, err, results, log, total_nand,
          reads, commits, first, os, args, game_dir, projects, selected>>

scanVars == <<meta, files, chip_map, idx, stack, err, results, log, total_nand,
              reads, commits, first>>

cliVars == <<os, args, game_dir, projects, selected>>

----------------------------------------------------------------------------
(* Bounds of the model *)

\* total size of the chip files of a generated project: a definition counts
\* its sub-chip entries, a file that does not load counts 1
MaxSize == 3

\* check_chip calls that fit on the call stack before it overflows
MaxDepth == 5

\* directory entries read_dir may return
MaxEntries == 2

----------------------------------------------------------------------------
(* Names *)

NAND == "NAND"

BUILTIN_CHIPS ==
    { "4-1BIT", "1-4BIT", "4-8BIT", "8-4BIT", "1-8BIT", "8-1BIT",
      "LED", "7-SEGMENT", "RGB DISPLAY", "DOT DISPLAY",
      "ROM 256x16",
      "CLOCK", "PULSE", "KEY", "3-STATE BUFFER",
      "BUS-1", "BUS-4", "BUS-8" }

\* the user-defined chip names that occur in the modelled projects
CustomNames == {"A", "B", "C", "D"}

Names == CustomNames \cup {NAND} \cup BUILTIN_CHIPS

\* Option<T> as a sequence of length 0 or 1
None == <<>>
Some(x) == <<x>>

----------------------------------------------------------------------------
(* Chip (lines 51-64) and the chip map *)

Chip(n, c) == [NAND_count |-> n, checked |-> c]

\* a default that already counts one gate
ChipDefaultCounted == Chip(1, FALSE)

\* impl Default for Chip
ChipDefault == Chip(0, FALSE)

\* HashMap::insert
Insert(m, k, v) == [x \in DOMAIN m \cup {k} |-> IF x = k THEN v ELSE m[x]]

\* insert without looking for an existing entry
OrDefaultAlways(m, k) == Insert(m, k, ChipDefault)

\* chip_map.entry(name).or_default() / insert when !contains_key
OrDefault(m, k) == IF k \in DOMAIN m THEN m ELSE Insert(m, k, ChipDefault)

\* add_default_chips on the empty map
DefaultChips ==
    [x \in {NAND} \cup BUILTIN_CHIPS |-> IF x = NAND THEN Chip(1, TRUE) ELSE Chip(0, TRUE)]

RECURSIVE SumCounts(_, _)
SumCounts(m, S) ==
    IF S = {} THEN 0
    ELSE LET k == CHOOSE x \in S : TRUE
         IN  m[k].NAND_count + SumCounts(m, S \ {k})

\* the sum over the user-defined entries only
TotalNandCustomOnly(m) == SumCounts(m, DOMAIN m \ ({NAND} \cup BUILTIN_CHIPS))

\* chip_map.values().map(|c| c.NAND_count).sum()
TotalNand(m) == SumCounts(m, DOMAIN m)

RECURSIVE InsertAll(_, _, _)
\* for name in &chips { chip_map.entry(name.to_string()).or_default(); }
InsertAll(m, chips, i) ==
    IF i > Len(chips) THEN m ELSE InsertAll(OrDefault(m, chips[i]), chips, i + 1)

----------------------------------------------------------------------------
(* Chip definition files.  kind says how far loading gets:                  *)
(*   "absent"      chip_path.exists() is false                              *)
(*   "unreadable"  read_to_string fails                                     *)
(*   "badjson"     from_str fails                                           *)
(*   "nosubchips"  data["SubChips"] is missing or not an array              *)
(*   "ok"          SubChips is an array; subs are its entries, each the     *)
(*                 Option of its "Name" string                              *)

FailKinds == {"absent", "unreadable", "badjson", "nosubchips"}

Failing(k) == [kind |-> k, subs |-> <<>>]
Def(subs) == [kind |-> "ok", subs |-> subs]

\* the file path!(base_path, "Chips", format!("{}.json", chip)) of line 286;
\* only the custom chips have one
FileOf(chip) == IF chip \in DOMAIN files THEN files[chip] ELSE Failing("absent")

\* Result<(), String>
Ok == <<"Ok">>
Err(msg, chip) == <<"Err", msg, chip>>

LoadError(kind, chip) ==
    CASE kind = "absent" -> Err("Chip file not found", chip)
      [] kind = "unreadable" -> Err("Failed to read chip file", chip)
      [] kind = "badjson" -> Err("Failed to parse JSON", chip)
      [] kind = "nosubchips" -> Err("SubChips missing or not array", chip)

----------------------------------------------------------------------------
(* The projects the model scans *)

RECURSIVE SeqsOfLen(_, _)
SeqsOfLen(S, n) ==
    IF n = 0 THEN {<<>>}
    ELSE {Append(q, x) : q \in SeqsOfLen(S, n - 1), x \in S}

\* what a sub-chip entry of a generated definition may be: a reference to a
\* custom chip, to NAND or to a built-in, or an entry without a "Name"
GenNames == {"A", "B", "C"}
GenEntries == {Some(n) : n \in GenNames \cup {NAND, "LED"}} \cup {None}

DefsOfSize(s) ==
    {Def(q) : q \in SeqsOfLen(GenEntries, s)}
        \cup (IF s = 1 THEN {Failing(k) : k \in FailKinds} ELSE {})

DefsUpTo(b) == UNION {DefsOfSize(s) : s \in 0..b}

SizeOf(d) == IF d.kind = "ok" THEN Len(d.subs) ELSE 1

Store(a, b, c, d) == [n \in CustomNames |->
    CASE n = "A" -> a [] n = "B" -> b [] n = "C" -> c [] n = "D" -> d]

\* the diamond A -> {B, C}, B -> {D}, C -> {D}, with D's file varied
DiamondLeaves ==
    { Def(<<Some(NAND)>>), Def(<<Some(NAND), Some(NAND)>>), Def(<<>>),
      Def(<<Some("LED"), None>>), Def(<<Some("A")>>), Def(<<Some("D")>>),
      Failing("absent"), Failing("nosubchips") }

Diamond(d) ==
    Store(Def(<<Some("B"), Some("C")>>), Def(<<Some("D")>>), Def(<<Some("D")>>), d)

\* ProjectDescription.json: kind as for the chip files; version is the
\* Option of DLSVersion_EarliestCompatible parsed as a semantic version;
\* chips are the strings of AllCustomChipNames
Meta(k, v, chips) == [kind |-> k, version |-> v, chips |-> chips]

\* Version::parse("2.1.5")
SupportedVersion == <<2, 1, 5>>

\* semver's ordering of major.minor.patch
VersionGt(v, w) ==
    \/ v[1] > w[1]
    \/ v[1] = w[1] /\ v[2] > w[2]
    \/ v[1] = w[1] /\ v[2] = w[2] /\ v[3] > w[3]

OkMeta(chips) == Meta("ok", Some(SupportedVersion), chips)

Versions ==
    { None, Some(<<2, 1, 5>>), Some(<<2, 1, 4>>), Some(<<1, 9, 9>>),
      Some(<<2, 1, 6>>), Some(<<2, 2, 0>>), Some(<<3, 0, 0>>) }

ChipLists ==
    { <<>>, <<"A">>, <<"B", "A">>, <<"B", "A", NAND, "LED">>, <<"B", "A", "B">>,
      <<"C", "B", "D">> }

Project(m, f) == [meta |-> m, files |-> f]

DiamondProjects == {Project(OkMeta(<<"A", "B", "C">>), Diamond(d)) : d \in DiamondLeaves}

\* one storage under every kind of project description
MetaStore ==
    Store(Def(<<Some(NAND), Some(NAND)>>), Def(<<Some("A"), Some("A")>>),
          Failing("absent"), Failing("absent"))

MetaProjects ==
    {Project(Meta(k, v, c), MetaStore)
        : k \in {"absent", "unreadable", "badjson", "ok"}, v \in Versions, c \in ChipLists}

\* the project scan_project is called on: A and B declared, with every storage
\* of A, B and C of total size at most MaxSize (D has no file); or a diamond;
\* or the storage MetaStore under some project description
IsScanProject(m, f) ==
    \/ /\ m = OkMeta(<<"A", "B">>)
       /\ \E a \in DefsUpTo(MaxSize) :
            \E b \in DefsUpTo(MaxSize - SizeOf(a)) :
              \E c \in DefsUpTo(MaxSize - SizeOf(a) - SizeOf(b)) :
                f = Store(a, b, c, Failing("absent"))
    \/ \E p \in DiamondProjects \cup MetaProjects : m = p.meta /\ f = p.files

----------------------------------------------------------------------------
(* check_chip (lines 274-324): one frame per active call *)

\* a call that has not yet looked at the map (line 280)
Call(chip) ==
    [chip |-> chip, at |-> "enter", subchips |-> <<>>, i |-> 1, nand_total |-> 0]

\* a call in its `for subchip in subchips` loop, about to visit entry i
Loop(chip, subchips) ==
    [chip |-> chip, at |-> "iter", subchips |-> subchips, i |-> 1, nand_total |-> 0]

Top == stack[Len(stack)]
Front(st) == SubSeq(st, 1, Len(st) - 1)
OnStack(name) == \E k \in 1..Len(stack) : stack[k].chip = name

\* no memo: every call loads the definition
MemoHitNever(m, chip) == FALSE

\* lines 280-284: the chip is in the map and checked
MemoHit(m, chip) == chip \in DOMAIN m /\ m[chip].checked

\* a call that is skipped for a chip with an active call
MustRecurseUnlessActive(m, st, name) ==
    ~m[name].checked /\ ~\E k \in 1..Len(st) : st[k].chip = name

\* line 312: the sub-chip is not checked, so check_chip is called on it
MustRecurse(m, st, name) == ~m[name].checked

\* `=` in place of `+=`
AccumulateOverwrite(total, m, name) == m[name].NAND_count

\* line 316: nand_total += chip_map.get(name).unwrap().NAND_count
Accumulate(total, m, name) == total + m[name].NAND_count

\* lines 319-321
CommitEntry(m, chip, total) == [m EXCEPT ![chip] = Chip(total, TRUE)]

\* the caller's frame once the call of line 313 has returned Ok: line 316 and
\* the next iteration
Resume(f, m) ==
    [f EXCEPT !.nand_total = Accumulate(f.nand_total, m, f.subchips[f.i][1]),
              !.i = f.i + 1]

\* the caller drops the error and goes on with the next entry
PropagateSkipSibling(st, e) ==
    [stack |-> Append(Front(st), [st[Len(st)] EXCEPT !.i = @ + 1]), err |-> None]

\* the `?` of line 313: the caller returns the callee's error
Propagate(st, e) == [stack |-> Front(st), err |-> Some(e)]

\* the first error ends the loop
NextAfterErrorAbort(i, chips) == Len(chips) + 1

\* lines 256-263: the error is printed and the loop goes on with the next name
NextAfterError(i, chips) == i + 1

\* check_chip returns Ok(()): to the caller's loop, or to scan_project
ReturnOk(m) ==
    IF Len(stack) > 1
    THEN /\ stack' = Append(Front(Front(stack)), Resume(stack[Len(stack) - 1], m))
         /\ UNCHANGED <<pc, idx, results>>
    ELSE /\ stack' = <<>>
         /\ results' = Append(results, Ok)
         /\ idx' = idx + 1
         /\ pc' = "loop"

\* check_chip returns Err(e) from its own frame
ReturnErr(e) ==
    /\ stack' = Front(stack)
    /\ err' = Some(e)

Running == pc = "call" /\ err = None /\ stack # <<>>

\* lines 280-284
CheckChipMemoHit ==
    /\ Running /\ Top.at = "enter"
    /\ MemoHit(chip_map, Top.chip)
    /\ ReturnOk(chip_map)
    /\ UNCHANGED <<meta, files, chip_map, err, log, total_nand, reads, commits, first>>
    /\ UNCHANGED cliVars

\* lines 286-298, the four ways the definition fails to load
CheckChipLoadFails ==
    /\ Running /\ Top.at = "enter"
    /\ ~MemoHit(chip_map, Top.chip)
    /\ FileOf(Top.chip).kind # "ok"
    /\ reads' = [reads EXCEPT ![Top.chip] = @ + 1]
    /\ ReturnErr(LoadError(FileOf(Top.chip).kind, Top.chip))
    /\ UNCHANGED <<meta, files, pc, chip_map, idx, results, log, total_nand, commits, first>>
    /\ UNCHANGED cliVars

\* lines 286-300: the definition loads and the loop starts
CheckChipLoad ==
    /\ Running /\ Top.at = "enter"
    /\ ~MemoHit(chip_map, Top.chip)
    /\ FileOf(Top.chip).kind = "ok"
    /\ reads' = [reads EXCEPT ![Top.chip] = @ + 1]
    /\ stack' = Append(Front(stack), Loop(Top.chip, FileOf(Top.chip).subs))
    /\ UNCHANGED <<meta, files, pc, chip_map, idx, err, results, log, total_nand, commits, first>>
    /\ UNCHANGED cliVars

InLoop == Running /\ Top.at = "iter" /\ Top.i <= Len(Top.subchips)

\* lines 303-306: the entry has no "Name"
CheckChipMissingName ==
    /\ InLoop
    /\ Top.subchips[Top.i] = None
    /\ ReturnErr(Err("SubChip entry missing Name", Top.chip))
    /\ UNCHANGED <<meta, files, pc, chip_map, idx, results, log, total_nand, reads, commits, first>>
    /\ UNCHANGED cliVars

\* lines 308-316 for a sub-chip that is checked: placeholder, no call, sum
CheckChipSubChecked ==
    /\ InLoop
    /\ Top.subchips[Top.i] # None
    /\ LET name == Top.subchips[Top.i][1]
           m == OrDefault(chip_map, name)
       IN  /\ ~MustRecurse(m, stack, name)
           /\ chip_map' = m
           /\ stack' = Append(Front(stack), Resume(Top, m))
    /\ UNCHANGED <<meta, files, pc, idx, err, results, log, total_nand, reads, commits, first>>
    /\ UNCHANGED cliVars

\* lines 308-313 for a sub-chip that is not checked: placeholder, then the call
CheckChipRecurse ==
    /\ InLoop
    /\ Top.subchips[Top.i] # None
    /\ Len(stack) < MaxDepth
    /\ LET name == Top.subchips[Top.i][1]
           m == OrDefault(chip_map, name)
       IN  /\ MustRecurse(m, stack, name)
           /\ chip_map' = m
           /\ stack' = Append(stack, Call(name))
    /\ UNCHANGED <<meta, files, pc, idx, err, results, log, total_nand, reads, commits, first>>
    /\ UNCHANGED cliVars

\* the call of line 313 when the call stack is exhausted: the process dies
CheckChipStackOverflow ==
    /\ InLoop
    /\ Top.subchips[Top.i] # None
    /\ Len(stack) >= MaxDepth
    /\ LET name == Top.subchips[Top.i][1]
           m == OrDefault(chip_map, name)
       IN  /\ MustRecurse(m, stack, name)
           /\ chip_map' = m
    /\ pc' = "overflow"
    /\ UNCHANGED <<meta, files, idx, stack, err, results, log, total_nand, reads, commits, first>>
    /\ UNCHANGED cliVars

\* lines 319-323
CheckChipCommit ==
    /\ Running /\ Top.at = "iter" /\ Top.i > Len(Top.subchips)
    /\ chip_map' = CommitEntry(chip_map, Top.chip, Top.nand_total)
    /\ commits' = [commits EXCEPT ![Top.chip] = @ + 1]
    /\ ReturnOk(chip_map')
    /\ UNCHANGED <<meta, files, err, log, total_nand, reads, first>>
    /\ UNCHANGED cliVars

\* line 313, `?`: an error of the callee ends the caller too
CheckChipPropagate ==
    /\ pc = "call" /\ err # None /\ stack # <<>>
    /\ LET r == Propagate(stack, err[1])
       IN  /\ stack' = r.stack
           /\ err' = r.err
    /\ UNCHANGED <<meta, files, pc, chip_map, idx, results, log, total_nand, reads, commits, first>>
    /\ UNCHANGED cliVars

----------------------------------------------------------------------------
(* scan_project (lines 185-272) *)

\* lines 187-246: why the project is skipped (None: it is analyzable)
SkipReason(m) ==
    CASE m.kind = "absent" -> Some("missing ProjectDescription.json")
      [] m.kind = "unreadable" -> Some("Failed to read metadata")
      [] m.kind = "badjson" -> Some("Failed to parse JSON")
      [] m.kind = "ok" /\ m.version = None ->
            Some("missing or invalid DLSVersion_EarliestCompatible")
      [] m.kind = "ok" /\ m.version # None /\ VersionGt(m.version[1], SupportedVersion) ->
            Some("incompatible version")
      [] m.kind = "ok" /\ m.version # None /\ ~VersionGt(m.version[1], SupportedVersion)
            /\ m.chips = <<>> -> Some("no custom chips found")
      [] OTHER -> None

NoCounts == [n \in Names |-> 0]
EmptyMap == [n \in {} |-> ChipDefault]

\* the scan variables when scan_project is entered
ScanEntry ==
    /\ chip_map = EmptyMap
    /\ idx = 1
    /\ stack = <<>>
    /\ err = None
    /\ results = <<>>
    /\ log = <<>>
    /\ total_nand = 0
    /\ reads = NoCounts
    /\ commits = NoCounts

\* the same, of the next state
ScanEntered ==
    /\ chip_map' = EmptyMap
    /\ idx' = 1
    /\ stack' = <<>>
    /\ err' = None
    /\ results' = <<>>
    /\ log' = <<>>
    /\ total_nand' = 0
    /\ reads' = NoCounts
    /\ commits' = NoCounts

\* lines 187-246, a skip: return None
ScanSkip ==
    /\ pc = "scan"
    /\ SkipReason(meta) # None
    /\ log' = Append(log, <<"Skipping", SkipReason(meta)[1]>>)
    /\ pc' = "skipped"
    /\ UNCHANGED <<meta, files, chip_map, idx, stack, err, results, total_nand,
                   reads, commits, first>>
    /\ UNCHANGED cliVars

\* lines 248-254: the map is seeded and the declared names get placeholders
ScanSeed ==
    /\ pc = "scan"
    /\ SkipReason(meta) = None
    /\ chip_map' = InsertAll(DefaultChips, meta.chips, 1)
    /\ idx' = 1
    /\ pc' = "loop"
    /\ UNCHANGED <<meta, files, stack, err, results, log, total_nand, reads, commits, first>>
    /\ UNCHANGED cliVars

\* line 257: self.check_chip(name, &mut chip_map, &project.path)
ScanCheckChip ==
    /\ pc = "loop"
    /\ idx <= Len(meta.chips)
    /\ stack' = <<Call(meta.chips[idx])>>
    /\ pc' = "call"
    /\ UNCHANGED <<meta, files, chip_map, idx, err, results, log, total_nand,
                   reads, commits, first>>
    /\ UNCHANGED cliVars

\* lines 257-262: `if let Err(e)`: the error is printed, not returned
ScanReportError ==
    /\ pc = "call" /\ stack = <<>> /\ err # None
    /\ log' = Append(log, <<"Error scanning chip", meta.chips[idx], err[1]>>)
    /\ results' = Append(results, err[1])
    /\ idx' = NextAfterError(idx, meta.chips)
    /\ err' = None
    /\ pc' = "loop"
    /\ UNCHANGED <<meta, files, chip_map, stack, total_nand, reads, commits, first>>
    /\ UNCHANGED cliVars

\* lines 265-271: return Some(ProjectScanResult { .. })
ScanFinish ==
    /\ pc = "loop"
    /\ idx > Len(meta.chips)
    /\ total_nand' = TotalNand(chip_map)
    /\ pc' = "done"
    /\ UNCHANGED <<meta, files, chip_map, idx, stack, err, results, log, reads, commits, first>>
    /\ UNCHANGED cliVars

ScanNext ==
    \/ ScanSkip
    \/ ScanSeed
    \/ ScanCheckChip
    \/ CheckChipMemoHit
    \/ CheckChipLoadFails
    \/ CheckChipLoad
    \/ CheckChipMissingName
    \/ CheckChipSubChecked
    \/ CheckChipRecurse
    \/ CheckChipStackOverflow
    \/ CheckChipCommit
    \/ CheckChipPropagate
    \/ ScanReportError
    \/ ScanFinish

----------------------------------------------------------------------------
(* Start-up: ProjectManager::new (lines 72-125) and main (lines 403-407) *)

TargetOS == {"windows", "linux", "macos", "other"}

\* the path!(..) of each #[cfg(target_os = ..)] block
DefaultGameDir(t) ==
    CASE t = "windows" ->
            <<"%USERPROFILE%", "AppData", "LocalLow", "SebastianLague", "Digital-Logic-Sim">>
      [] t = "linux" ->
            <<"$HOME", ".config", "unity3d", "SebastianLague", "Digital-Logic-Sim">>
      [] t = "macos" ->
            <<"$HOME", "Library", "Application Support", "unity3d", "SebastianLague",
              "Digital-Logic-Sim">>

\* lines 73-108: game_dir.unwrap_or_else(PathBuf::new), then the cfg blocks
NewGameDir(t, arg) ==
    LET given == IF arg = None THEN <<>> ELSE arg[1]
    IN  IF t \in {"windows", "linux", "macos"} THEN DefaultGameDir(t) ELSE given

\* line 110
ProjectsPath(dir) == dir \o <<"Projects">>

\* Project { name, path } (lines 46-49)
ProjectAt(dir, name) == [name |-> name, path |-> dir \o <<name>>]

\* what read_dir may yield: directories and plain files
DirEntries ==
    { [name |-> "Adder", is_dir |-> TRUE], [name |-> "CPU", is_dir |-> TRUE],
      [name |-> "notes.txt", is_dir |-> FALSE], [name |-> "Old", is_dir |-> TRUE] }

IsInjective(q) == \A i, j \in 1..Len(q) : q[i] = q[j] => i = j

Listings == UNION {{q \in SeqsOfLen(DirEntries, n) : IsInjective(q)} : n \in 0..MaxEntries}

RECURSIVE ProjectsOf(_, _, _)
\* lines 112-123: the entries of the directory that are directories
ProjectsOf(dir, listing, i) ==
    IF i > Len(listing) THEN <<>>
    ELSE (IF listing[i].is_dir THEN <<ProjectAt(dir, listing[i].name)>> ELSE <<>>)
            \o ProjectsOf(dir, listing, i + 1)

\* lines 145-162: the projects the typed line selects (None: not a number)
Selection(ps, input) ==
    IF input = None THEN <<>>
    ELSE LET n == input[1]
         IN  IF n = Len(ps) + 1 THEN ps
             ELSE IF n > 0 /\ n <= Len(ps) THEN <<ps[n]>>
             ELSE <<>>

\* the contents a selected project directory may have
CliProjects ==
    { Project(OkMeta(<<"A", "B", "C">>), Diamond(Def(<<Some(NAND)>>))),
      Project(OkMeta(<<"A", "B", "C">>), Diamond(Def(<<Some("LED"), None>>))),
      Project(OkMeta(<<"A", "B", "C">>), Diamond(Failing("absent"))),
      Project(OkMeta(<<"A", "B", "C">>), Diamond(Def(<<Some("A")>>))),
      Project(OkMeta(<<"B", "A">>), MetaStore),
      Project(Meta("ok", Some(<<3, 0, 0>>), <<"A">>), MetaStore) }

\* ProjectManager::new when read_dir fails: panic!("Failed to read project directory")
NewPanics ==
    /\ pc = "main"
    /\ game_dir' = NewGameDir(os, args)
    /\ pc' = "panic"
    /\ UNCHANGED <<os, args, projects, selected>>
    /\ UNCHANGED scanVars

\* ProjectManager::new
New ==
    /\ pc = "main"
    /\ game_dir' = NewGameDir(os, args)
    /\ \E listing \in Listings :
          projects' = ProjectsOf(ProjectsPath(game_dir'), listing, 1)
    /\ pc' = "prompt"
    /\ UNCHANGED <<os, args, selected>>
    /\ UNCHANGED scanVars

\* prompt_and_scan up to the match on the typed line
Prompt ==
    /\ pc = "prompt"
    /\ \E input \in {None} \cup {Some(n) : n \in 0..(Len(projects) + 2)} :
          /\ selected' = Selection(projects, input)
          /\ log' = IF selected' = <<>> /\ (input = None \/ input[1] # Len(projects) + 1)
                    THEN Append(log, <<"Invalid choice.">>) ELSE log
    /\ pc' = "selected"
    /\ UNCHANGED <<os, args, game_dir, projects>>
    /\ UNCHANGED <<meta, files, chip_map, idx, stack, err, results, total_nand,
                   reads, commits, first>>

\* prompt_and_scan: self.scan_project(p) for the next selected project
ScanSelected ==
    /\ pc \in {"selected", "done", "skipped"}
    /\ selected # <<>>
    /\ selected' = Tail(selected)
    /\ \E p \in CliProjects : meta' = p.meta /\ files' = p.files
    /\ ScanEntered
    /\ pc' = "scan"
    /\ UNCHANGED <<os, args, game_dir, projects, first>>

\* main returns
Exit ==
    /\ pc \in {"selected", "done", "skipped"}
    /\ selected = <<>>
    /\ pc' = "exit"
    /\ UNCHANGED <<os, args, game_dir, projects, selected>>
    /\ UNCHANGED scanVars

----------------------------------------------------------------------------
(* A second scan of the same storage with AllCustomChipNames reordered *)

Remove(q, i) == SubSeq(q, 1, i - 1) \o SubSeq(q, i + 1, Len(q))

RECURSIVE Perms(_)
Perms(q) ==
    IF q = <<>> THEN {<<>>}
    ELSE UNION {{<<q[i]>> \o r : r \in Perms(Remove(q, i))} : i \in 1..Len(q)}

\* ProjectScanResult (lines 327-331)
ScanResult == [chip_map |-> chip_map, total_nand |-> total_nand]

Rescan ==
    /\ pc = "done"
    /\ first = None
    /\ first' = Some([chips |-> meta.chips, result |-> ScanResult])
    /\ \E q \in Perms(meta.chips) : meta' = [meta EXCEPT !.chips = q]
    /\ ScanEntered
    /\ pc' = "scan"
    /\ UNCHANGED <<files, os, args, game_dir, projects, selected>>

----------------------------------------------------------------------------
(* Specifications *)

\* scan_project is entered for one project
Init ==
    /\ pc = "scan"
    /\ IsScanProject(meta, files)
    /\ ScanEntry
    /\ first = None
    /\ os = "linux"
    /\ args = None
    /\ game_dir = NewGameDir("linux", None)
    /\ projects = <<ProjectAt(ProjectsPath(game_dir), "Adder")>>
    /\ selected = <<>>

Next == ScanNext

Spec == Init /\ [][Next]_vars

NextPerm == ScanNext \/ Rescan

SpecPerm == Init /\ [][NextPerm]_vars

\* the process starts
InitCli ==
    /\ pc = "main"
    /\ os \in TargetOS
    /\ args \in {None, Some(<<"/mnt", "dls">>)}
    /\ game_dir = <<>>
    /\ projects = <<>>
    /\ selected = <<>>
    /\ meta = Meta("absent", None, <<>>)
    /\ files = MetaStore
    /\ ScanEntry
    /\ first = None

NextCli == NewPanics \/ New \/ Prompt \/ ScanSelected \/ Exit \/ ScanNext

SpecCli == InitCli /\ [][NextCli]_vars

----------------------------------------------------------------------------
(* What the stored definitions say, independently of any scan *)

\* the chips a chip's definition names, with repetition
RefsOf(c) ==
    LET d == FileOf(c)
    IN  IF c \in CustomNames /\ d.kind = "ok"
        THEN {d.subs[i][1] : i \in {j \in 1..Len(d.subs) : d.subs[j] # None}}
        ELSE {}

RECURSIVE ReachIn(_, _)
\* the chips reachable from those of S in at most n references
ReachIn(S, n) ==
    IF n = 0 THEN S ELSE ReachIn(S \cup UNION {RefsOf(c) : c \in S}, n - 1)

ReachableFrom(c) == ReachIn(RefsOf(c), Cardinality(CustomNames))

\* the chip transitively references itself
OnCycle(c) == c \in ReachableFrom(c)

Acyclic == \A c \in CustomNames : ~OnCycle(c)

\* the definition loads and every entry has a name
WellFormed(c) ==
    \/ c \in {NAND} \cup BUILTIN_CHIPS
    \/ /\ c \in CustomNames
       /\ FileOf(c).kind = "ok"
       /\ \A i \in 1..Len(FileOf(c).subs) : FileOf(c).subs[i] # None

\* the chip's own definition and all transitively referenced ones are valid
Valid(c) == WellFormed(c) /\ \A d \in ReachableFrom(c) : WellFormed(d)

RECURSIVE GateCount(_)
RECURSIVE GateCountOfSubs(_, _)
\* the number of NAND gates a valid, acyclic chip expands to
GateCount(c) ==
    IF c = NAND THEN 1
    ELSE IF c \in BUILTIN_CHIPS THEN 0
    ELSE GateCountOfSubs(FileOf(c).subs, 1)

GateCountOfSubs(subs, i) ==
    IF i > Len(subs) THEN 0 ELSE GateCount(subs[i][1]) + GateCountOfSubs(subs, i + 1)

Resolved(c) == c \in DOMAIN chip_map /\ chip_map[c].checked

RECURSIVE SumOfSubs(_, _)
\* the sum of the map's counts over the named entries from position i on
SumOfSubs(subs, i) ==
    IF i > Len(subs) THEN 0
    ELSE chip_map[subs[i][1]].NAND_count + SumOfSubs(subs, i + 1)

IsErr(r) == r[1] = "Err"

----------------------------------------------------------------------------
(* C1: a custom chip that check_chip has marked checked has a definition     *)
(* that loads, all of whose entries are named and checked, and its          *)
(* NAND_count is the sum of the entries' NAND_counts, one term per entry    *)
(* (a name that occurs twice counts twice).                                 *)
C1_CountIsSumOfSubChips ==
    \A c \in CustomNames :
        Resolved(c) =>
            /\ FileOf(c).kind = "ok"
            /\ \A i \in 1..Len(FileOf(c).subs) :
                  FileOf(c).subs[i] # None /\ Resolved(FileOf(c).subs[i][1])
            /\ chip_map[c].NAND_count = SumOfSubs(FileOf(c).subs, 1)
            /\ (FileOf(c).subs = <<Some(NAND)>> => chip_map[c].NAND_count = 1)
            /\ \A a \in CustomNames :
                  FileOf(c).subs = <<Some(a), Some(a)>> =>
                      chip_map[c].NAND_count = 2 * chip_map[a].NAND_count

\* a chip with sub-chips [a, a], a a custom chip of positive cost, is resolved
C1_Witness ==
    \E c, a \in CustomNames :
        /\ Resolved(c) /\ Resolved(a)
        /\ FileOf(c).subs = <<Some(a), Some(a)>>
        /\ chip_map[a].NAND_count >= 1
        /\ chip_map[c].NAND_count = 2 * chip_map[a].NAND_count

----------------------------------------------------------------------------
(* C2: in one chip map, a checked entry keeps its NAND_count and stays       *)
(* checked in every step; and a check_chip call on a checked name returns   *)
(* Ok without accessing any definition file or changing the map.            *)
C2_ResolvedIsFinal ==
    [][ /\ \A n \in DOMAIN chip_map :
              chip_map[n].checked =>
                  n \in DOMAIN chip_map' /\ chip_map'[n] = chip_map[n]
        /\ (pc = "call" /\ err = None /\ stack # <<>> /\ Top.at = "enter"
                /\ Resolved(Top.chip)) =>
              /\ reads' = reads
              /\ chip_map' = chip_map
              /\ err' = None
              /\ stack' = Front(stack)
              /\ (stack' = <<>> => results' = Append(results, Ok)) ]_vars

\* check_chip has been called from scan_project on A, which the call on B had
\* resolved as a sub-chip, on the seeded NAND and on a seeded built-in, and
\* returned Ok each time
C2_Witness ==
    /\ meta.chips = <<"B", "A", NAND, "LED">>
    /\ "A" \in RefsOf("B")
    /\ results = <<Ok, Ok, Ok, Ok>>
    /\ reads["A"] = 1 /\ reads[NAND] = 0 /\ reads["LED"] = 0

----------------------------------------------------------------------------
(* C3: during one scan no chip is committed twice, and a chip that is        *)
(* checked had its definition file accessed exactly once and was committed  *)
(* exactly once; in the diamond A -> {B, C}, B -> {D}, C -> {D},            *)
(* D -> {NAND}, once A is checked D was loaded once and A costs 2.          *)
C3_ResolvedOnce ==
    /\ \A c \in CustomNames :
          /\ commits[c] <= 1
          /\ Resolved(c) => reads[c] = 1 /\ commits[c] = 1
    /\ \A b \in {NAND} \cup BUILTIN_CHIPS : reads[b] = 0 /\ commits[b] = 0
    /\ (files = Diamond(Def(<<Some(NAND)>>)) /\ Resolved("A")) =>
          /\ reads["D"] = 1
          /\ commits["D"] = 1
          /\ chip_map["A"].NAND_count = 2

\* the diamond's scan has finished with A resolved
C3_Witness ==
    /\ files = Diamond(Def(<<Some(NAND)>>))
    /\ pc = "done"
    /\ Resolved("A") /\ Resolved("D")
    /\ reads["D"] = 1

----------------------------------------------------------------------------
(* C4: in the step in which a check_chip call returns an error, the chip it  *)
(* was called on has an entry, unchecked and with count 0; and outside the  *)
(* seeding an entry becomes checked only in the commit step of a call on    *)
(* that chip.                                                               *)
C4_ErrorLeavesUnresolved ==
    [][ /\ (pc = "call" /\ stack # <<>> /\ err' # None /\ stack' = Front(stack)) =>
              /\ Top.chip \in DOMAIN chip_map'
              /\ chip_map'[Top.chip] = [NAND_count |-> 0, checked |-> FALSE]
        /\ \A n \in DOMAIN chip_map' :
              (chip_map'[n].checked /\ ~Resolved(n) /\ pc # "scan") =>
                  /\ pc = "call" /\ err = None /\ stack # <<>>
                  /\ Top.chip = n
                  /\ Top.at = "iter"
                  /\ Top.i > Len(Top.subchips) ]_vars

\* a call from scan_project has returned an error although a sub-chip that
\* precedes the failing entry had been resolved
C4_Witness ==
    \E k \in 1..Len(results) :
        LET c == meta.chips[k]
        IN  /\ IsErr(results[k])
            /\ c \in CustomNames
            /\ FileOf(c).kind = "ok"
            /\ Len(FileOf(c).subs) >= 2
            /\ FileOf(c).subs[1] # None
            /\ FileOf(c).subs[1][1] \in CustomNames
            /\ Resolved(FileOf(c).subs[1][1])
            /\ chip_map[c] = [NAND_count |-> 0, checked |-> FALSE]

----------------------------------------------------------------------------
(* C5 as claimed: a check_chip call from scan_project on a chip that         *)
(* transitively references itself never returns.                            *)
C5_Original ==
    \A k \in 1..Len(results) : ~OnCycle(meta.chips[k])

\* the loop of the innermost call is at an entry that names a chip with an
\* active call
ReentryPending ==
    /\ pc = "call" /\ err = None /\ stack # <<>>
    /\ Top.at = "iter" /\ Top.i <= Len(Top.subchips)
    /\ Top.subchips[Top.i] # None
    /\ OnStack(Top.subchips[Top.i][1])

\* some chip has two active calls
Reentered ==
    \E j, k \in 1..Len(stack) : j < k /\ stack[j].chip = stack[k].chip

\* every definition reachable from c loads and names all its entries
AllReachableWellFormed(c) == \A d \in ReachableFrom(c) : WellFormed(d)

(* C5 as amended: when the traversal reaches an entry naming a chip that     *)
(* has an active call, check_chip is called on it again (or the stack is    *)
(* exhausted): no error, no memo hit; once a chip has two active calls it   *)
(* keeps having them, no error is raised and the scan neither continues     *)
(* nor finishes; and no call from scan_project returns on a chip that       *)
(* references itself while all definitions reachable from it are            *)
(* well-formed.                                                             *)
C5_ReentryNeverReturns ==
    /\ [](\A k \in 1..Len(results) :
            ~(OnCycle(meta.chips[k]) /\ AllReachableWellFormed(meta.chips[k])))
    /\ [][ /\ ReentryPending =>
                /\ err' = None
                /\ \/ stack' = Append(stack, Call(Top.subchips[Top.i][1])) /\ pc' = "call"
                   \/ stack' = stack /\ pc' = "overflow" /\ Len(stack) = MaxDepth
           /\ Reentered =>
                /\ Reentered'
                /\ err' = None
                /\ pc' \in {"call", "overflow"}
                /\ Len(stack') >= Len(stack)
                /\ results' = results ]_vars

\* a chip that references itself has been re-entered until the stack ran out
C5_Witness ==
    /\ pc = "overflow"
    /\ Reentered
    /\ OnCycle(stack[1].chip)
    /\ results = <<>>

----------------------------------------------------------------------------
(* C6: scan_project calls check_chip on the declared names in declaration   *)
(* order, one result per name; an error is logged and the loop goes on      *)
(* with the next name; and when the scan returns, every declared chip       *)
(* whose definition and all transitively referenced definitions are valid   *)
(* is checked with the gate count its definition expands to.  Inside the    *)
(* loop there is always an active call or an error to report, and the only  *)
(* way the scan does not return is a call stack exhausted by a chip that    *)
(* references itself.                                                       *)
C6_ErrorsDoNotAbortScan ==
    /\ pc = "call" => (stack # <<>> \/ err # None)
    /\ pc = "overflow" => \E k \in 1..Len(stack) : OnCycle(stack[k].chip)
    /\ pc \in {"loop", "call", "overflow"} => Len(results) = idx - 1
    /\ pc \in {"call", "overflow"} =>
          idx <= Len(meta.chips) /\ (stack # <<>> => stack[1].chip = meta.chips[idx])
    /\ \A k \in 1..Len(results) :
          IsErr(results[k]) =>
              \E l \in 1..Len(log) :
                  log[l] = <<"Error scanning chip", meta.chips[k], results[k]>>
    /\ pc = "done" =>
          /\ Len(results) = Len(meta.chips)
          /\ \A k \in 1..Len(meta.chips) :
                LET c == meta.chips[k]
                IN  Valid(c) =>
                        /\ Resolved(c)
                        /\ chip_map[c].NAND_count = GateCount(c)
                        /\ results[k] = Ok

\* the scan returned after the first declared chip failed, the second was
\* resolved and the third failed
C6_Witness ==
    /\ pc = "done"
    /\ Len(results) = 3
    /\ IsErr(results[1]) /\ results[2] = Ok /\ IsErr(results[3])
    /\ Valid(meta.chips[2])
    /\ chip_map[meta.chips[2]].NAND_count >= 1

----------------------------------------------------------------------------
(* C7 as claimed: total_nand is the sum of NAND_count over the entries that  *)
(* are neither one of the 18 built-ins nor NAND.                            *)
C7_Original ==
    pc = "done" => total_nand = TotalNandCustomOnly(chip_map)

(* C7 as amended: total_nand is the sum of NAND_count over every entry of    *)
(* the final map, the seeded ones included; the built-ins add 0 and NAND    *)
(* adds 1, so it is one more than the sum over the user-defined chips.      *)
C7_TotalCountsEveryEntry ==
    pc = "done" =>
        /\ total_nand = SumCounts(chip_map, DOMAIN chip_map)
        /\ total_nand = 1 + SumCounts(chip_map, DOMAIN chip_map \ ({NAND} \cup BUILTIN_CHIPS))
        /\ SumCounts(chip_map, BUILTIN_CHIPS) = 0
        /\ chip_map[NAND].NAND_count = 1

\* a scan has returned with resolved user-defined chips
C7_Witness ==
    /\ pc = "done"
    /\ \E c \in CustomNames : Resolved(c) /\ chip_map[c].NAND_count >= 2
    /\ total_nand >= 3

----------------------------------------------------------------------------
(* C8: when the command-line argument is given, once ProjectManager::new    *)
(* has returned game_dir is the argument and every project found lies       *)
(* under <argument>/Projects.                                               *)
C8_ArgumentOverridesDefault ==
    (pc \notin {"main", "panic"} /\ args # None) =>
        /\ game_dir = args[1]
        /\ \A k \in 1..Len(projects) :
              projects[k].path = args[1] \o <<"Projects", projects[k].name>>

----------------------------------------------------------------------------
(* C9: while an error travels up, each step ends the innermost remaining     *)
(* call with that error and touches neither the map nor any definition      *)
(* file; an entry without a name ends its call at once; so the entries      *)
(* after a failing one are never visited by that call.                      *)
C9_FailFast ==
    [][ /\ (pc = "call" /\ err # None /\ stack # <<>>) =>
              /\ stack' = Front(stack)
              /\ err' = err
              /\ chip_map' = chip_map
              /\ reads' = reads
              /\ commits' = commits
        /\ (pc = "call" /\ err = None /\ stack # <<>> /\ Top.at = "iter"
                /\ Top.i <= Len(Top.subchips) /\ Top.subchips[Top.i] = None) =>
              /\ stack' = Front(stack)
              /\ err' # None
              /\ chip_map' = chip_map
              /\ reads' = reads ]_vars

\* a sub-chip's error has reached a call that has a later entry naming a chip
\* that is not in the map and whose file was never accessed
C9_Witness ==
    /\ pc = "call" /\ err # None /\ stack # <<>>
    /\ Top.i < Len(Top.subchips)
    /\ Top.subchips[Top.i + 1] # None
    /\ Top.subchips[Top.i + 1][1] \in CustomNames \ DOMAIN chip_map
    /\ reads[Top.subchips[Top.i + 1][1]] = 0

----------------------------------------------------------------------------
(* C10: for a storage whose references are acyclic, a scan with the          *)
(* declared names permuted ends with the same map and the same total as     *)
(* the scan before it.                                                      *)
C10_OrderIndependent ==
    (pc = "done" /\ first # None /\ Acyclic) => first[1].result = ScanResult

\* a second scan has finished in another order, with a failed and a resolved chip
C10_Witness ==
    /\ pc = "done" /\ first # None /\ Acyclic
    /\ first[1].chips # meta.chips
    /\ \E k \in 1..Len(results) : IsErr(results[k])
    /\ \E k \in 1..Len(results) : results[k] = Ok /\ meta.chips[k] \in CustomNames

====
